---- MODULE Spec2Model ----
(***************************************************************************)
(* Model of backend/main.py: the /recommend handler of the news            *)
(* recommender.  One request is one behaviour: the uploaded file is drawn  *)
(* in Init, the answers of the two collaborators (sentence encoder,        *)
(* NewsAPI) are drawn where the handler consumes them.                     *)
(*                                                                         *)
(* Text is a tuple of one-character strings, so that lower(), strip(),     *)
(* re.sub() and quote_plus() are computed character by character.          *)
(* HTTP details and response bodies are whole strings.                     *)
(***************************************************************************)
EXTENDS Integers, Sequences, FiniteSets, TLC

VARIABLES
    file,          \* the uploaded file: [kind, has_list, HashtagList]
    news_api_key,  \* the form parameter
    pc,            \* the stage the handler is in
    raw_tags,      \* main.py:52
    encode_calls,  \* the batches passed to model.encode, in call order
    cleaned_tags,  \* main.py:83
    query,         \* main.py:87/89
    get_calls,     \* the urls passed to requests.get, in call order
    response,      \* what requests.get returned
    df,            \* the DataFrame of main.py:117..129
    http_status,   \* status of the HTTP answer (0 while the request runs)
    detail,        \* detail of the HTTPException, "" if none
    result,        \* the returned records
    fnames,        \* SpecFilter: the input of the hashtag filter
    fterms         \* SpecFilter: its output

vars == <<file, news_api_key, pc, raw_tags, encode_calls, cleaned_tags, query,
          get_calls, response, df, http_status, detail, result, fnames, fterms>>

(***************************************************************************)
(* Bounds of the model.                                                    *)
(***************************************************************************)
MaxTags == 2       \* records in HashtagList
MaxArticles == 2   \* articles in one NewsAPI answer
MaxNames == 8      \* names given to the hashtag filter in SpecFilter

(***************************************************************************)
(* Program constants.                                                      *)
(***************************************************************************)
MinTokenLen == 3   \* main.py:78
QueryLimit == 5    \* main.py:83
PageSize == 100    \* main.py:96, main.py:102
HTTP_OK == 200     \* main.py:106

(***************************************************************************)
(* Python values.                                                          *)
(***************************************************************************)
None == <<"None">>       \* Python None / JSON null (no text equals it)
Absent == <<"absent">>   \* a key a JSON object does not have
NaN == <<"NaN">>         \* the cell pandas puts where a row lacks a column

Min(S) == CHOOSE m \in S : \A n \in S : m <= n
Max(S) == CHOOSE m \in S : \A n \in S : m >= n
Range(s) == {s[i] : i \in DOMAIN s}

\* dict.get(key, default)
Get(d, key, default) == IF d[key] = Absent THEN default ELSE d[key]

\* truth value of a str, a list or None
Truthy(v) == v # None /\ v # <<>>

UPPER == <<"A","B","C","D","E","F","G","H","I","J","K","L","M",
           "N","O","P","Q","R","S","T","U","V","W","X","Y","Z">>
LOWER == <<"a","b","c","d","e","f","g","h","i","j","k","l","m",
           "n","o","p","q","r","s","t","u","v","w","x","y","z">>
DIGITS == {"0","1","2","3","4","5","6","7","8","9"}
WHITESPACE == {" ", "\t", "\n"}

\* str.lower()
lower(s) ==
    [i \in 1..Len(s) |->
        IF \E k \in DOMAIN UPPER : UPPER[k] = s[i]
        THEN LOWER[CHOOSE k \in DOMAIN UPPER : UPPER[k] = s[i]]
        ELSE s[i]]

\* str.strip()
strip(s) ==
    LET keep == {i \in 1..Len(s) : s[i] \notin WHITESPACE}
    IN  IF keep = {} THEN <<>> ELSE SubSeq(s, Min(keep), Max(keep))

IsLowerAlnum(c) == c \in Range(LOWER) \cup DIGITS

\* main.py:25-29
clean_hashtag(name) == SelectSeq(lower(name), IsLowerAlnum)

\* main.py:65-68
stop_tags ==
    { <<"f","y","p">>, <<"f","o","r","y","o","u">>,
      <<"t","r","e","n","d","i","n","g">>, <<"v","i","r","a","l">>,
      <<"f","u","n","n","y">>, <<"e","x","p","l","o","r","e">>,
      <<"t","i","k","t","o","k">>,
      <<"t","i","k","t","o","k","d","a","n","c","e">>,
      <<"x","y","z","b","c","a">> }

\* main.py:70-80: the loop that collects the cleaned tags
RECURSIVE CleanLoop(_, _)
CleanLoop(tags, acc) ==
    IF tags = <<>> THEN acc
    ELSE LET ct == clean_hashtag(Head(tags))
         IN  IF ct = <<>> THEN CleanLoop(Tail(tags), acc)
             ELSE IF ct \in stop_tags THEN CleanLoop(Tail(tags), acc)
             ELSE IF Len(ct) < MinTokenLen THEN CleanLoop(Tail(tags), acc)
             ELSE CleanLoop(Tail(tags), Append(acc, ct))

\* list(dict.fromkeys(xs)): the keys in order of first insertion
RECURSIVE FromKeys(_, _)
FromKeys(xs, acc) ==
    IF xs = <<>> THEN acc
    ELSE IF Head(xs) \in Range(acc) THEN FromKeys(Tail(xs), acc)
    ELSE FromKeys(Tail(xs), Append(acc, Head(xs)))

\* xs[:n]
Slice(xs, n) == SubSeq(xs, 1, IF Len(xs) < n THEN Len(xs) ELSE n)

\* a plausible slip: the limit applied before the duplicates are removed
DedupAfterLimit(cleaned) == FromKeys(Slice(cleaned, QueryLimit), <<>>)

\* main.py:83
DedupAndLimit(cleaned) == Slice(FromKeys(cleaned, <<>>), QueryLimit)

\* main.py:70-83: the hashtag filter
filterTags(tags) == DedupAndLimit(CleanLoop(tags, <<>>))

\* sep.join(xs)
RECURSIVE Join(_, _)
Join(sep, xs) ==
    IF xs = <<>> THEN <<>>
    ELSE IF Len(xs) = 1 THEN xs[1]
    ELSE xs[1] \o sep \o Join(sep, Tail(xs))

OR_SEP == <<" ", "O", "R", " ">>

\* main.py:86-89
BuildQuery(tags) == IF tags # <<>> THEN Join(OR_SEP, tags) ELSE <<>>

\* urllib.parse.quote_plus of one character
QuoteChar(c) ==
    IF c = " " THEN <<"+">>
    ELSE IF c \in Range(LOWER) \cup Range(UPPER) \cup DIGITS \cup {"_", ".", "-", "~"}
         THEN <<c>>
    ELSE IF c = "#" THEN <<"%", "2", "3">>
    ELSE IF c = "!" THEN <<"%", "2", "1">>
    ELSE IF c = "+" THEN <<"%", "2", "B">>
    ELSE IF c = "\t" THEN <<"%", "0", "9">>
    ELSE <<"%", "0", "A">>

\* urllib.parse.quote_plus
RECURSIVE quote_plus(_)
quote_plus(s) ==
    IF s = <<>> THEN <<>> ELSE QuoteChar(Head(s)) \o quote_plus(Tail(s))

EVERYTHING == "https://newsapi.org/v2/everything"
TOP_HEADLINES == "https://newsapi.org/v2/top-headlines"

\* a plausible slip: the keyword search requested whatever the query is
AlwaysSearchUrl(q, key) ==
    [endpoint |-> EVERYTHING, q |-> quote_plus(q), language |-> "en",
     pageSize |-> PageSize, page |-> 1, apiKey |-> key]

\* main.py:92-103: the url, as its endpoint and its query parameters
BuildUrl(q, key) ==
    IF q # <<>>
    THEN [endpoint |-> EVERYTHING, q |-> quote_plus(q), language |-> "en",
          pageSize |-> PageSize, page |-> 1, apiKey |-> key]
    ELSE [endpoint |-> TOP_HEADLINES, q |-> Absent, language |-> "en",
          pageSize |-> PageSize, page |-> 1, apiKey |-> key]

\* main.py:52-53
RawTags(hashtag_list) ==
    LET kept == SelectSeq(hashtag_list,
                          LAMBDA h : Truthy(Get(h, "HashtagName", None)))
    IN  [i \in 1..Len(kept) |-> strip(Get(kept[i], "HashtagName", <<>>))]

\* a plausible slip: every status below 400 taken for a success
StatusBelow400(status_code) == status_code >= 400

\* main.py:106
IsErrorStatus(status_code) == status_code # HTTP_OK

(***************************************************************************)
(* pandas.                                                                 *)
(***************************************************************************)
ARTICLE_KEYS == {"title", "description", "url"}

\* pd.DataFrame(articles): the columns are the keys some article has; a row
\* lacking a column holds NaN there.  index is the row label pandas keeps.
DataFrame(articles) ==
    [columns |-> {k \in ARTICLE_KEYS :
                     \E i \in DOMAIN articles : articles[i][k] # Absent},
     rows |-> [i \in DOMAIN articles |->
                 [index |-> i,
                  title |-> IF articles[i].title = Absent THEN NaN
                            ELSE articles[i].title,
                  description |-> IF articles[i].description = Absent THEN NaN
                                  ELSE articles[i].description,
                  url |-> IF articles[i].url = Absent THEN NaN
                          ELSE articles[i].url]]]

isna(v) == v = None \/ v = NaN

\* a plausible slip: only the title is required
dropna_first_only(frame, subset) ==
    [frame EXCEPT !.rows = SelectSeq(@, LAMBDA r : ~isna(r.title))]

\* DataFrame.dropna(subset=...), for a subset of the frame's columns
dropna(frame, subset) ==
    [frame EXCEPT !.rows = SelectSeq(@, LAMBDA r : \A k \in subset : ~isna(r[k]))]

\* main.py:122
NewsTexts(rows) ==
    [i \in DOMAIN rows |-> rows[i].title \o <<" ">> \o rows[i].description]

\* DataFrame.sort_values("score", ascending=False) with the default
\* kind="quicksort", which is not stable: any order of the rows that is
\* non-increasing by score can come out.
sort_values_desc(rows) ==
    { [i \in DOMAIN rows |-> rows[p[i]]] :
        p \in { pp \in Permutations(DOMAIN rows) :
                  \A i, j \in DOMAIN rows :
                      i < j => rows[pp[i]].score >= rows[pp[j]].score } }

\* main.py:131
ToRecords(rows) ==
    [i \in DOMAIN rows |->
        [title |-> rows[i].title, description |-> rows[i].description,
         url |-> rows[i].url, score |-> rows[i].score]]

(***************************************************************************)
(* The inputs the model draws from.                                        *)
(***************************************************************************)
HashtagRecords ==
    { [HashtagName |-> Absent],
      [HashtagName |-> <<>>],
      [HashtagName |-> <<" ", " ">>],
      [HashtagName |-> <<" ", "T", "e", "c", "h">>],
      [HashtagName |-> <<"#", "F", "Y", "P">>],
      [HashtagName |-> <<"n", "e", "w", "s">>] }

HashtagLists == UNION { [1..k -> HashtagRecords] : k \in 0..MaxTags }

Files ==
    { [kind |-> "text_not_json", has_list |-> FALSE, HashtagList |-> <<>>],
      [kind |-> "undecodable_bytes", has_list |-> FALSE, HashtagList |-> <<>>],
      [kind |-> "json_array", has_list |-> FALSE, HashtagList |-> <<>>],
      [kind |-> "json_object", has_list |-> FALSE, HashtagList |-> <<>>] }
    \cup { [kind |-> "json_object", has_list |-> TRUE, HashtagList |-> l] :
             l \in HashtagLists }

ApiKeys == {"test-api-key"}

T1 == <<"A">>
T2 == <<"B">>
D1 == <<"d">>
U1 == <<"u">>

Articles ==
    { [title |-> T1, description |-> D1, url |-> U1],
      [title |-> T2, description |-> D1, url |-> U1],
      [title |-> None, description |-> D1, url |-> U1],
      [title |-> T1, description |-> None, url |-> U1],
      [title |-> Absent, description |-> D1, url |-> U1],
      [title |-> T1, description |-> D1, url |-> Absent] }

ArticleLists == UNION { [1..k -> Articles] : k \in 0..MaxArticles }

Bodies == {"Invalid API key", ""}

\* the cosine similarities the encoder's vectors can give (two levels: the
\* articles of the model have two distinct texts)
ScoreValues == {1, 2}

Responses ==
    { [status_code |-> s, text |-> b, has_articles |-> FALSE, articles |-> <<>>] :
        s \in {401, 204}, b \in Bodies }
    \cup { [status_code |-> HTTP_OK, text |-> "{}", has_articles |-> FALSE,
             articles |-> <<>>] }
    \cup { [status_code |-> HTTP_OK, text |-> "{}", has_articles |-> TRUE,
             articles |-> a] : a \in ArticleLists }

NoResponse == [status_code |-> 0, text |-> "", has_articles |-> FALSE,
               articles |-> <<>>]

(***************************************************************************)
(* The handler, main.py:32-131, one action per stage.                      *)
(***************************************************************************)
Init ==
    /\ file \in Files
    /\ news_api_key \in ApiKeys
    /\ pc = "ParsingInput"
    /\ raw_tags = <<>>
    /\ encode_calls = <<>>
    /\ cleaned_tags = <<>>
    /\ query = <<>>
    /\ get_calls = <<>>
    /\ response = NoResponse
    /\ df = <<>>
    /\ http_status = 0
    /\ detail = ""
    /\ result = <<>>
    /\ fnames = <<>>
    /\ fterms = <<>>

\* raise HTTPException(status_code, detail); an exception nothing catches
\* is answered 500 "Internal Server Error"
Raise(status_code, msg) ==
    /\ pc' = "Failed"
    /\ http_status' = status_code
    /\ detail' = msg

INTERNAL == "Internal Server Error"

\* main.py:36-40.  json.loads raises JSONDecodeError for text that is not
\* JSON, and UnicodeDecodeError, which the except clause does not name, for
\* bytes that are not text.
Parse ==
    /\ pc = "ParsingInput"
    /\ IF file.kind = "text_not_json" THEN Raise(400, "Invalid JSON file")
       ELSE IF file.kind = "undecodable_bytes" THEN Raise(500, INTERNAL)
       ELSE /\ pc' = "ExtractingHashtags"
            /\ UNCHANGED <<http_status, detail>>
    /\ UNCHANGED <<file, news_api_key, raw_tags, encode_calls, cleaned_tags,
                   query, get_calls, response, df, result, fnames, fterms>>

\* main.py:42-55.  The three nested lookups are one: has_list is FALSE when
\* any key of the path is missing, and the default [] is taken.  A document that is no object has no get().
ExtractHashtags ==
    /\ pc = "ExtractingHashtags"
    /\ IF file.kind # "json_object"
       THEN Raise(500, INTERNAL) /\ UNCHANGED raw_tags
       ELSE LET hashtag_list == IF file.has_list THEN file.HashtagList ELSE <<>>
                tags == RawTags(hashtag_list)
            IN  IF hashtag_list = <<>>
                THEN Raise(400, "No hashtags found in TikTok file")
                     /\ UNCHANGED raw_tags
                ELSE IF tags = <<>>
                THEN Raise(400, "No usable hashtag texts detected")
                     /\ raw_tags' = tags
                ELSE /\ raw_tags' = tags
                     /\ pc' = "BuildingProfile"
                     /\ UNCHANGED <<http_status, detail>>
    /\ UNCHANGED <<file, news_api_key, encode_calls, cleaned_tags, query,
                   get_calls, response, df, result, fnames, fterms>>

\* main.py:58-61.  The profile vector is the encoder's business; the model
\* keeps what the encoder was given.
BuildProfile ==
    /\ pc = "BuildingProfile"
    /\ encode_calls' = Append(encode_calls, raw_tags)
    /\ pc' = "BuildingQuery"
    /\ UNCHANGED <<file, news_api_key, raw_tags, cleaned_tags, query, get_calls,
                   response, df, http_status, detail, result, fnames, fterms>>

\* main.py:63-89
BuildQueryStage ==
    /\ pc = "BuildingQuery"
    /\ cleaned_tags' = filterTags(raw_tags)
    /\ query' = BuildQuery(cleaned_tags')
    /\ pc' = "RetrievingArticles"
    /\ UNCHANGED <<file, news_api_key, raw_tags, encode_calls, get_calls,
                   response, df, http_status, detail, result, fnames, fterms>>

\* main.py:91-115
Retrieve ==
    /\ pc = "RetrievingArticles"
    /\ \E r \in Responses :
         /\ get_calls' = Append(get_calls, BuildUrl(query, news_api_key))
         /\ response' = r
         /\ IF IsErrorStatus(r.status_code)
            THEN Raise(500, "NewsAPI error: " \o r.text)
            ELSE IF (IF r.has_articles THEN r.articles ELSE <<>>) = <<>>
            THEN Raise(500, "No news articles returned")
            ELSE /\ pc' = "Ranking"
                 /\ UNCHANGED <<http_status, detail>>
    /\ UNCHANGED <<file, news_api_key, raw_tags, encode_calls, cleaned_tags,
                   query, df, result, fnames, fterms>>

\* main.py:117-131.  dropna raises KeyError when no article has a title or
\* when none has a description; the column selection of line 131 raises it
\* when no article has a url.
Rank ==
    /\ pc = "Ranking"
    /\ LET frame == DataFrame(response.articles)
           kept == dropna(frame, {"title", "description"})
           news_texts == NewsTexts(kept.rows)
       IN  IF ~({"title", "description"} \subseteq frame.columns)
           THEN Raise(500, INTERNAL) /\ UNCHANGED <<df, encode_calls, result>>
           ELSE IF kept.rows = <<>>
           THEN /\ Raise(500, "No usable news articles returned")
                /\ df' = kept.rows
                /\ UNCHANGED <<encode_calls, result>>
           ELSE /\ encode_calls' = Append(encode_calls, news_texts)
                /\ \E scores \in [Range(news_texts) -> ScoreValues] :
                   \E sorted \in sort_values_desc(
                        [i \in DOMAIN kept.rows |->
                            [index |-> kept.rows[i].index,
                             title |-> kept.rows[i].title,
                             description |-> kept.rows[i].description,
                             url |-> kept.rows[i].url,
                             score |-> scores[news_texts[i]]]]) :
                       /\ df' = sorted
                       /\ IF "url" \notin frame.columns
                          THEN Raise(500, INTERNAL) /\ UNCHANGED result
                          ELSE /\ result' = ToRecords(sorted)
                               /\ pc' = "Done"
                               /\ http_status' = HTTP_OK
                               /\ UNCHANGED detail
    /\ UNCHANGED <<file, news_api_key, raw_tags, cleaned_tags, query, get_calls,
                   response, fnames, fterms>>

Next ==
    \/ Parse
    \/ ExtractHashtags
    \/ BuildProfile
    \/ BuildQueryStage
    \/ Retrieve
    \/ Rank

Spec == Init /\ [][Next]_vars

(***************************************************************************)
(* The hashtag filter of main.py:70-83 on its own, over longer lists than  *)
(* a whole request affords.  The name at position i is the i-th topic, a   *)
(* topic counted from the other end (so that topics repeat and change      *)
(* order), or one of four names the filter must not let through as they    *)
(* are, taken in turn.                                                     *)
(***************************************************************************)
Topics ==
    << <<"d","o","g">>, <<"c","a","t">>, <<"s","u","n">>, <<"s","e","a">>,
       <<"w","e","b">>, <<"a","r","t">>, <<"c","a","r">>, <<"j","a","m">>,
       <<"p","o","p">>, <<"z","o","o">> >>

Noise == << <<"#","F","Y","P">>, <<"A",".","I">>, <<"D","o","g","!">>, <<>> >>

NameOptions(i) ==
    { Topics[i], Topics[MaxNames + 1 - i], Noise[((i - 1) % Len(Noise)) + 1] }

InitFilter ==
    /\ file = [kind |-> "json_object", has_list |-> FALSE, HashtagList |-> <<>>]
    /\ news_api_key \in ApiKeys
    /\ pc = "FilterInput"
    /\ raw_tags = <<>>
    /\ encode_calls = <<>>
    /\ cleaned_tags = <<>>
    /\ query = <<>>
    /\ get_calls = <<>>
    /\ response = NoResponse
    /\ df = <<>>
    /\ http_status = 0
    /\ detail = ""
    /\ result = <<>>
    /\ fnames = <<>>
    /\ fterms = <<>>

GiveName ==
    /\ pc = "FilterInput"
    /\ Len(fnames) < MaxNames
    /\ \E n \in NameOptions(Len(fnames) + 1) : fnames' = Append(fnames, n)
    /\ UNCHANGED <<file, news_api_key, pc, raw_tags, encode_calls, cleaned_tags,
                   query, get_calls, response, df, http_status, detail, result,
                   fterms>>

ApplyFilter ==
    /\ pc = "FilterInput"
    /\ fterms' = filterTags(fnames)
    /\ pc' = "FilterDone"
    /\ UNCHANGED <<file, news_api_key, raw_tags, encode_calls, cleaned_tags,
                   query, get_calls, response, df, http_status, detail, result,
                   fnames>>

NextFilter ==
    \/ GiveName
    \/ ApplyFilter

SpecFilter == InitFilter /\ [][NextFilter]_vars

(***************************************************************************)
(* What the claims speak of.                                               *)
(***************************************************************************)
Finished == pc \in {"Done", "Failed"}

FailedWith(status_code, msg) ==
    pc = "Failed" /\ http_status = status_code /\ detail = msg

NoCollaboratorCalled == encode_calls = <<>> /\ get_calls = <<>>

\* the hashtag names the export holds, in input order
GivenNames ==
    LET named == SelectSeq(file.HashtagList, LAMBDA h : h.HashtagName # Absent)
    IN  [i \in DOMAIN named |-> named[i].HashtagName]

IsBlank(name) == \A i \in DOMAIN name : name[i] \in WHITESPACE

\* the trimmed names, the empty ones discarded
TrimmedNames ==
    LET usable == SelectSeq(GivenNames, LAMBDA n : ~IsBlank(n))
    IN  [i \in DOMAIN usable |-> strip(usable[i])]

HasTitleAndDescription(a) ==
    /\ a.title # Absent /\ a.title # None
    /\ a.description # Absent /\ a.description # None

UsableArticles ==
    {i \in DOMAIN response.articles : HasTitleAndDescription(response.articles[i])}

ClaimStoplist ==
    { <<"f","y","p">>, <<"f","o","r","y","o","u">>,
      <<"t","r","e","n","d","i","n","g">>, <<"v","i","r","a","l">>,
      <<"f","u","n","n","y">>, <<"e","x","p","l","o","r","e">>,
      <<"t","i","k","t","o","k">>,
      <<"t","i","k","t","o","k","d","a","n","c","e">>,
      <<"x","y","z","b","c","a">> }

PassesFilters(token) == Len(token) >= 3 /\ token \notin ClaimStoplist

\* C1: an export whose HashtagList is non-empty and whose names are all
\* empty or whitespace is answered 400 "No usable hashtag texts detected",
\* and neither the encoder nor NewsAPI is called.
C1_BlankNamesRejected ==
    ( /\ file.kind = "json_object"
      /\ file.has_list
      /\ file.HashtagList # <<>>
      /\ \A i \in DOMAIN file.HashtagList :
            /\ file.HashtagList[i].HashtagName # Absent
            /\ IsBlank(file.HashtagList[i].HashtagName) )
    => /\ NoCollaboratorCalled
       /\ pc \notin {"ParsingInput", "ExtractingHashtags"}
            => FailedWith(400, "No usable hashtag texts detected")

\* C2: a successful request returns the articles that have both a title and
\* a description, each exactly once and no other, sorted non-increasing by
\* score.
C2_RankedUsableArticles ==
    pc = "Done" =>
        /\ Len(result) = Cardinality(UsableArticles)
        /\ Len(df) = Len(result)
        /\ {df[k].index : k \in DOMAIN df} = UsableArticles
        /\ \A k \in DOMAIN result :
              /\ result[k].title = response.articles[df[k].index].title
              /\ result[k].description
                    = response.articles[df[k].index].description
              /\ result[k].score = df[k].score
        /\ \A j, k \in DOMAIN result :
              j < k => result[j].score >= result[k].score

C2_Witness ==
    /\ pc = "Done"
    /\ Len(result) < Len(response.articles)
    /\ Len(result) >= 1

\* C3: two returned articles of equal score keep the order they had in the
\* retrieved articles array.
C3_StableSort ==
    pc = "Done" =>
        \A j, k \in DOMAIN df :
            (j < k /\ df[j].score = df[k].score) => df[j].index < df[k].index

\* C4: a 200 answer whose articles array is non-empty and holds no article
\* with both a title and a description is answered 500 "No usable news
\* articles returned", never a ranking and never another failure.
C4_NoUsableArticlesRejected ==
    ( /\ Finished
      /\ response.status_code = 200
      /\ response.has_articles
      /\ response.articles # <<>>
      /\ UsableArticles = {} )
    => FailedWith(500, "No usable news articles returned")

\* C5: a file that is not valid structured data is answered 400 "Invalid
\* JSON file", before any hashtag is extracted and without a collaborator
\* being called.
C5_MalformedRejected ==
    file.kind \in {"text_not_json", "undecodable_bytes"}
    => /\ NoCollaboratorCalled
       /\ raw_tags = <<>>
       /\ pc # "ParsingInput" => FailedWith(400, "Invalid JSON file")

\* C6: NewsAPI is called at most once, exactly once when the request gets
\* that far, and any status but 200 ends the request with 500 and "NewsAPI
\* error: " followed by the body, with no article embedded and nothing
\* returned.
C6_RetrievalOnceAndErrorTerminal ==
    /\ Len(get_calls) <= 1
    /\ pc \in {"ParsingInput", "ExtractingHashtags", "BuildingProfile",
               "BuildingQuery", "RetrievingArticles"} => get_calls = <<>>
    /\ pc \in {"Ranking", "Done"} => Len(get_calls) = 1
    /\ (get_calls # <<>> /\ response.status_code # 200)
         => /\ FailedWith(500, "NewsAPI error: " \o response.text)
            /\ Len(get_calls) = 1
            /\ Len(encode_calls) = 1
            /\ encode_calls[1] = raw_tags
            /\ result = <<>>

C6_Witness ==
    /\ Len(get_calls) = 1
    /\ response.status_code = 401
    /\ response.text = "Invalid API key"
    /\ FailedWith(500, "NewsAPI error: Invalid API key")

\* C7: the query terms the filter computes are distinct, at most 5, each of
\* 3 characters or more and none in the stoplist, and they are the first
\* five distinct normalized names that pass the stoplist and length
\* filters, in order of first occurrence.
C7_FilterContract ==
    pc = "FilterDone" =>
        LET norm == [i \in DOMAIN fnames |-> clean_hashtag(fnames[i])]
            first == {i \in DOMAIN fnames :
                        /\ PassesFilters(norm[i])
                        /\ \A j \in 1..(i - 1) : norm[j] # norm[i]}
        IN  /\ \A j, k \in DOMAIN fterms : j # k => fterms[j] # fterms[k]
            /\ Len(fterms) <= 5
            /\ \A k \in DOMAIN fterms : PassesFilters(fterms[k])
            /\ Len(fterms) = IF Cardinality(first) < 5 THEN Cardinality(first)
                             ELSE 5
            /\ \A k \in DOMAIN fterms :
                  \E i \in first :
                      /\ fterms[k] = norm[i]
                      /\ Cardinality({j \in first : j < i}) = k - 1

C7_Witness ==
    /\ pc = "FilterDone"
    /\ Len(fterms) = 5
    /\ \E i \in DOMAIN fnames :
          /\ PassesFilters(clean_hashtag(fnames[i]))
          /\ clean_hashtag(fnames[i]) \notin Range(fterms)
    /\ \E i \in DOMAIN fnames : clean_hashtag(fnames[i]) \in ClaimStoplist
    /\ \E i, j \in DOMAIN fnames :
          i < j /\ fnames[i] # fnames[j]
                /\ clean_hashtag(fnames[i]) = clean_hashtag(fnames[j])

\* C8: the texts given to the encoder for the profile are the trimmed
\* hashtag names without the empty ones, in input order; no text is empty.
C8_ProfileTextsTrimmedNonEmpty ==
    encode_calls # <<>> =>
        /\ encode_calls[1] = TrimmedNames
        /\ \A i \in DOMAIN encode_calls[1] : encode_calls[1][i] # <<>>

\* C9: the request reports the first gate that fails, in the order
\* malformed document, empty hashtag list, no usable names, retrieval
\* status, zero articles, no usable articles; nothing runs after a failed
\* gate; the request ends Done with the ranking or Failed with one reason.
C9_FirstFailingGateReported ==
    (Finished /\ file.kind # "json_array") =>
        /\ pc = "Failed" => result = <<>> /\ detail # ""
        /\ pc = "Done" => detail = "" /\ http_status = 200 /\ result # <<>>
        /\ IF file.kind \in {"text_not_json", "undecodable_bytes"}
           THEN FailedWith(400, "Invalid JSON file") /\ NoCollaboratorCalled
           ELSE IF ~file.has_list \/ file.HashtagList = <<>>
           THEN /\ FailedWith(400, "No hashtags found in TikTok file")
                /\ NoCollaboratorCalled
           ELSE IF TrimmedNames = <<>>
           THEN /\ FailedWith(400, "No usable hashtag texts detected")
                /\ NoCollaboratorCalled
           ELSE /\ Len(get_calls) = 1
                /\ IF response.status_code # 200
                   THEN /\ FailedWith(500, "NewsAPI error: " \o response.text)
                        /\ Len(encode_calls) = 1
                   ELSE IF ~response.has_articles \/ response.articles = <<>>
                   THEN /\ FailedWith(500, "No news articles returned")
                        /\ Len(encode_calls) = 1
                   ELSE IF UsableArticles = {}
                   THEN /\ FailedWith(500, "No usable news articles returned")
                        /\ Len(encode_calls) = 1
                   ELSE pc = "Done" /\ Len(encode_calls) = 2

\* the terms joined by " OR ", as quote_plus transmits them
RECURSIVE JoinedForUrl(_)
JoinedForUrl(terms) ==
    IF Len(terms) = 1 THEN terms[1]
    ELSE JoinedForUrl(SubSeq(terms, 1, Len(terms) - 1))
            \o <<"+", "O", "R", "+">> \o terms[Len(terms)]

\* C10: with a usable term NewsAPI is asked for a keyword search of the
\* filtered terms joined by " OR " in filter order; with none (every name
\* stoplisted, shorter than 3 characters or without a letter or digit) it is
\* asked for the generic headlines and the request goes on; either way for
\* 100 results, first page.
C10_RetrievalMode ==
    /\ get_calls # <<>> =>
        LET url == get_calls[1]
            usable == {i \in DOMAIN raw_tags :
                          PassesFilters(clean_hashtag(raw_tags[i]))}
        IN  /\ url.pageSize = 100
            /\ url.page = 1
            /\ usable = {} <=> cleaned_tags = <<>>
            /\ cleaned_tags # <<>> =>
                  /\ url.endpoint = "https://newsapi.org/v2/everything"
                  /\ url.q = JoinedForUrl(cleaned_tags)
            /\ cleaned_tags = <<>> =>
                  /\ url.endpoint = "https://newsapi.org/v2/top-headlines"
                  /\ url.q = Absent
    /\ pc = "RetrievingArticles" => http_status = 0 /\ get_calls = <<>>

C10_Witness ==
    /\ pc = "Done"
    /\ raw_tags # <<>>
    /\ cleaned_tags = <<>>
    /\ Len(get_calls) = 1
    /\ get_calls[1].endpoint = "https://newsapi.org/v2/top-headlines"

====
